---- MODULE Spec2Model ----
(***************************************************************************)
(* Model of the Telegram storefront bot:                                   *)
(*   - backend/session_manager.py  TelegramSessionManager (OTP watcher)    *)
(*   - backend/bot.py              purchase confirmation handlers          *)
(*   - backend/main.py             admin API add_account                   *)
(* Time is counted in minutes.  Every `await` of the source is a           *)
(* suspension point: the code before it and the code after it are          *)
(* separate steps, and other tasks may run in between.                     *)
(***************************************************************************)
EXTENDS Integers, Sequences, FiniteSets, TLC

(* ---------------------------- bounds ---------------------------------- *)
MaxTime == 1
MaxMsgs == 1
MaxClients == 2
SeqTime == 1
SeqMsgs == 1
SeqClients == 3
MaxClock == 5
CacheMsgs == 1
CacheClients == 2
LoginMsgs == 1
LoginClients == 1
LoopTicks == 26
LoopMsgs == 1
LoopClients == 1
DevClients == 1
StaleClock == 6
StaleMsgs == 1
StaleClients == 1
MaxAccounts == 2
MaxPurchases == 3
MaxDeposits == 2
MaxCredit == 2
ButtonMsgs == 1
ButtonClients == 2

(* ------------------------ program constants --------------------------- *)
FRESH_MINUTES == 5
HISTORY_LIMIT == 5
LAST_ATTEMPT == 24
DATETIME_MIN == -1

Phones == {"p1", "p2"}
Tasks == {"t1", "t2"}
Raced == {"p1"}
OneTask == {"t1"}
Codes == {"11111"}
NoCode == "none"
NoClient == 0
(* what a message of chat 777000 carries: <<code found by the regex, login keywords match>> *)
MessageKinds == {<<c, FALSE>> : c \in Codes} \cup {<<NoCode, TRUE>>}

VARIABLES
    now,                     \* datetime.now(), in minutes
    active_clients,          \* phone -> client id, NoClient when the key is absent
    otp_cache,               \* phone -> cache entry
    login_status,            \* phone -> "absent" | "false" | "true"
    monitoring_start_times,  \* phone -> minute, DATETIME_MIN when the key is absent
    live,                    \* phone -> set of started, not stopped clients
    hist,                    \* phone -> chat history with 777000, newest last
    task,                    \* task -> the coroutine it is suspended in
    watchStart,              \* phone -> minute of the latest start_monitoring call for the phone
    last,                    \* the observed call that returned last, with what it returned
    observed,                \* the operations that watchStart and last keep a record of
    balance,                 \* user -> User.balance
    accounts,                \* Account rows, id = index
    purchases,               \* Purchase rows, id = index
    handler,                 \* handler task -> position in the purchase handler
    lastBuy,                 \* the purchase handler that finished last
    frames,                  \* the call stack of show_otp_waiting, innermost frame last
    screen,                  \* what the bot message of the poll loop shows
    run,                     \* what the run of the poll loop did so far
    dev,                     \* the DeviceManager call in progress and its temporary client
    auths,                   \* the authorization hashes Telegram lists for the account
    fsm,                     \* user -> the FSMContext of the user's chat
    deposits                 \* Deposit rows, id = index

watcherVars == <<now, active_clients, otp_cache, login_status, monitoring_start_times,
                 live, hist, task, watchStart, last, observed>>
storeVars == <<balance, accounts, purchases, handler, lastBuy>>
loopVars == <<frames, screen, run>>
deviceVars == <<dev, auths>>
depositVars == <<fsm, deposits>>
vars == <<now, active_clients, otp_cache, login_status, monitoring_start_times,
          live, hist, task, watchStart, last, observed,
          balance, accounts, purchases, handler, lastBuy,
          frames, screen, run, dev, auths, fsm, deposits>>

(* ------------------------------ watcher ------------------------------- *)
NoEntry == [present |-> FALSE, code |-> NoCode, timestamp |-> 0]
Entry(c, ts) == [present |-> TRUE, code |-> c, timestamp |-> ts]

IdleTask == [op |-> "idle", pc |-> "idle", phone |-> "p1", client |-> NoClient]
Suspended(o, l, p, c) == [op |-> o, pc |-> l, phone |-> p, client |-> c]

NoAge == -1
NoCall == [op |-> "none", result |-> "none", basis |-> "none", age |-> NoAge]
(* last after operation o returned r, when its returns are observed *)
Call(o, r, b, a) ==
    IF \/ o \in observed /\ o # "start_monitoring"
       \/ o = "start_monitoring" /\ "start_monitoring returns" \in observed
    THEN [op |-> o, result |-> r, basis |-> b, age |-> a]
    ELSE last

(* watchStart after a start_monitoring call for p, when those calls are observed *)
StartCalled(p) ==
    IF "start_monitoring" \in observed THEN [watchStart EXCEPT ![p] = now] ELSE watchStart

WatcherInit ==
    /\ now = 0
    /\ active_clients = [p \in Phones |-> NoClient]
    /\ otp_cache = [p \in Phones |-> NoEntry]
    /\ login_status = [p \in Phones |-> "absent"]
    /\ monitoring_start_times = [p \in Phones |-> DATETIME_MIN]
    /\ live = [p \in Phones |-> {}]
    /\ hist = [p \in Phones |-> <<>>]
    /\ task = [t \in Tasks |-> IdleTask]
    /\ watchStart = [p \in Phones |-> DATETIME_MIN]
    /\ last = NoCall


(* get_otp with the age test `<=` in place of `<` *)
get_otp_inclusive(p) ==
    IF otp_cache[p].present /\ now - otp_cache[p].timestamp <= FRESH_MINUTES
    THEN otp_cache[p].code
    ELSE NoCode

(* session_manager.py 176-183: the cached code, if it is less than 5 minutes old *)
get_otp(p) ==
    IF otp_cache[p].present /\ now - otp_cache[p].timestamp < FRESH_MINUTES
    THEN otp_cache[p].code
    ELSE NoCode

(* minutes since the cached entry of p was captured, NoAge when there is none *)
CacheAge(p) == IF otp_cache[p].present THEN now - otp_cache[p].timestamp ELSE NoAge

(* the `limit` newest messages of the chat, newest first *)
RECURSIVE Newest(_, _)
Newest(h, limit) ==
    IF limit = 0 \/ h = <<>> THEN <<>>
    ELSE <<h[Len(h)]>> \o Newest(SubSeq(h, 1, Len(h) - 1), limit - 1)

(* check_login_status, lines 212-226: the first scanned login notice newer than the start time *)
IsNewLogin(m, p) == m.login /\ m.date > monitoring_start_times[p]
LoginScan(p) == Newest(hist[p], HISTORY_LIMIT)
FoundLogin(p) == \E i \in 1..Len(LoginScan(p)) : IsNewLogin(LoginScan(p)[i], p)
FoundLoginDate(p) ==
    LET s == LoginScan(p)
        i == CHOOSE k \in 1..Len(s) :
                 IsNewLogin(s[k], p) /\ \A j \in 1..(k - 1) : ~IsNewLogin(s[j], p)
    IN s[i].date

(* ---- start_monitoring ---- *)
(* AlreadyMonitoring that also runs line 112 and resets the login flag *)
AlreadyMonitoring_resets(t, p) ==
    /\ task[t].pc = "idle"
    /\ active_clients[p] # NoClient
    /\ monitoring_start_times' = [monitoring_start_times EXCEPT ![p] = now]
    /\ login_status' = [login_status EXCEPT ![p] = "false"]
    /\ watchStart' = StartCalled(p)
    /\ last' = Call("start_monitoring", "refreshed", "none", NoAge)
    /\ UNCHANGED <<now, active_clients, otp_cache, live, hist, task>>
    /\ UNCHANGED <<observed, storeVars, loopVars, deviceVars, depositVars>>

(* lines 25-30: already monitored, refresh the start time and return *)
AlreadyMonitoring(t, p) ==
    /\ task[t].pc = "idle"
    /\ active_clients[p] # NoClient
    /\ monitoring_start_times' = [monitoring_start_times EXCEPT ![p] = now]
    /\ watchStart' = StartCalled(p)
    /\ last' = Call("start_monitoring", "refreshed", "none", NoAge)
    /\ UNCHANGED <<now, active_clients, otp_cache, login_status, live, hist, task>>
    /\ UNCHANGED <<observed, storeVars, loopVars, deviceVars, depositVars>>

(* lines 32-99: construct the Client and suspend in client.start() *)
StartMonitoring(t, p, c) ==
    /\ task[t].pc = "idle"
    /\ active_clients[p] = NoClient
    /\ task' = [task EXCEPT ![t] = Suspended("start_monitoring", "client_start", p, c)]
    /\ watchStart' = StartCalled(p)
    /\ UNCHANGED <<now, active_clients, otp_cache, login_status, monitoring_start_times,
                   live, hist, last>>
    /\ UNCHANGED <<observed, storeVars, loopVars, deviceVars, depositVars>>

(* line 99 returns: the connection is open; suspend in client.get_me() *)
ClientStarted(t) ==
    /\ task[t].pc = "client_start"
    /\ live' = [live EXCEPT ![task[t].phone] = @ \cup {task[t].client}]
    /\ task' = [task EXCEPT ![t].pc = "start_get_me"]
    /\ UNCHANGED <<now, active_clients, otp_cache, login_status, monitoring_start_times,
                   hist, watchStart, last>>
    /\ UNCHANGED <<observed, storeVars, loopVars, deviceVars, depositVars>>

(* ClientStartFailed that runs line 112 before it re-raises *)
ClientStartFailed_registers(t) ==
    /\ task[t].pc = "client_start"
    /\ login_status' = [login_status EXCEPT ![task[t].phone] = "false"]
    /\ task' = [task EXCEPT ![t] = IdleTask]
    /\ last' = Call("start_monitoring", "raised", "none", NoAge)
    /\ UNCHANGED <<now, active_clients, otp_cache, monitoring_start_times,
                   live, hist, watchStart>>
    /\ UNCHANGED <<observed, storeVars, loopVars, deviceVars, depositVars>>

(* line 99 raises: lines 114-116 re-raise, nothing is registered *)
ClientStartFailed(t) ==
    /\ task[t].pc = "client_start"
    /\ task' = [task EXCEPT ![t] = IdleTask]
    /\ last' = Call("start_monitoring", "raised", "none", NoAge)
    /\ UNCHANGED <<now, active_clients, otp_cache, login_status, monitoring_start_times,
                   live, hist, watchStart>>
    /\ UNCHANGED <<observed, storeVars, loopVars, deviceVars, depositVars>>

(* lines 102-112: get_me returned or raised (ignored); register the client *)
RegisterClient(t) ==
    /\ task[t].pc = "start_get_me"
    /\ active_clients' = [active_clients EXCEPT ![task[t].phone] = task[t].client]
    /\ login_status' = [login_status EXCEPT ![task[t].phone] = "false"]
    /\ task' = [task EXCEPT ![t] = IdleTask]
    /\ last' = Call("start_monitoring", "opened", "none", NoAge)
    /\ UNCHANGED <<now, otp_cache, monitoring_start_times, live, hist, watchStart>>
    /\ UNCHANGED <<observed, storeVars, loopVars, deviceVars, depositVars>>

(* ---- stop_monitoring ---- *)
(* lines 120, 128-132 when the phone is not monitored: only the cache is cleared *)
StopAbsent(t, p) ==
    /\ task[t].pc = "idle"
    /\ active_clients[p] = NoClient
    /\ otp_cache' = [otp_cache EXCEPT ![p] = NoEntry]
    /\ login_status' = [login_status EXCEPT ![p] = "absent"]
    /\ last' = Call("stop_monitoring", "done", "none", NoAge)
    /\ UNCHANGED <<now, active_clients, monitoring_start_times, live, hist,
                   task, watchStart>>
    /\ UNCHANGED <<observed, storeVars, loopVars, deviceVars, depositVars>>

(* lines 120-122: suspend in client.stop() of the registered client *)
StopMonitoring(t, p) ==
    /\ task[t].pc = "idle"
    /\ active_clients[p] # NoClient
    /\ task' = [task EXCEPT ![t] = Suspended("stop_monitoring", "client_stop", p, active_clients[p])]
    /\ UNCHANGED <<now, active_clients, otp_cache, login_status, monitoring_start_times,
                   live, hist, watchStart, last>>
    /\ UNCHANGED <<observed, storeVars, loopVars, deviceVars, depositVars>>

(* lines 122-132: stop() returned; the key is deleted (a KeyError is caught) and the cache cleared *)
ClientStopped(t) ==
    /\ task[t].pc = "client_stop"
    /\ task[t].client \in live[task[t].phone]
    /\ live' = [live EXCEPT ![task[t].phone] = @ \ {task[t].client}]
    /\ active_clients' = [active_clients EXCEPT ![task[t].phone] = NoClient]
    /\ otp_cache' = [otp_cache EXCEPT ![task[t].phone] = NoEntry]
    /\ login_status' = [login_status EXCEPT ![task[t].phone] = "absent"]
    /\ task' = [task EXCEPT ![t] = IdleTask]
    /\ last' = Call("stop_monitoring", "done", "none", NoAge)
    /\ UNCHANGED <<now, monitoring_start_times, hist, watchStart>>
    /\ UNCHANGED <<observed, storeVars, loopVars, deviceVars, depositVars>>

(* lines 122, 125-132: stop() raised; the key stays, the cache is cleared *)
ClientStopFailed(t) ==
    /\ task[t].pc = "client_stop"
    /\ otp_cache' = [otp_cache EXCEPT ![task[t].phone] = NoEntry]
    /\ login_status' = [login_status EXCEPT ![task[t].phone] = "absent"]
    /\ task' = [task EXCEPT ![t] = IdleTask]
    /\ last' = Call("stop_monitoring", "stop_failed", "none", NoAge)
    /\ UNCHANGED <<now, active_clients, monitoring_start_times, live, hist,
                   watchStart>>
    /\ UNCHANGED <<observed, storeVars, loopVars, deviceVars, depositVars>>


(* ---- check_latest_otp ---- *)
(* lines 139-140 *)
PollNotMonitoring(t, p) ==
    /\ task[t].pc = "idle"
    /\ active_clients[p] = NoClient
    /\ last' = Call("check_latest_otp", NoCode, "not_monitoring", NoAge)
    /\ UNCHANGED <<now, active_clients, otp_cache, login_status, monitoring_start_times,
                   live, hist, task, watchStart>>
    /\ UNCHANGED <<observed, storeVars, loopVars, deviceVars, depositVars>>

(* lines 142-147: suspend in client.get_chat_history(777000, limit=1) *)
CheckLatestOtp(t, p) ==
    /\ task[t].pc = "idle"
    /\ active_clients[p] # NoClient
    /\ task' = [task EXCEPT ![t] = Suspended("check_latest_otp", "history", p, active_clients[p])]
    /\ UNCHANGED <<now, active_clients, otp_cache, login_status, monitoring_start_times,
                   live, hist, watchStart, last>>
    /\ UNCHANGED <<observed, storeVars, loopVars, deviceVars, depositVars>>

(* line 158: the message is recent (within 5 minutes) *)
RecentEnough(m) == now - m.date < FRESH_MINUTES

(* the message check_latest_otp accepts: the newest one, when it carries a code and is recent *)
PollAccepts(p) ==
    /\ hist[p] # <<>>
    /\ hist[p][Len(hist[p])].code # NoCode
    /\ RecentEnough(hist[p][Len(hist[p])])

(* lines 147-167: the newest message carries a recent code; cache it and return it *)
PollHit(t) ==
    LET p == task[t].phone
        m == hist[p][Len(hist[p])]
    IN /\ task[t].pc = "history"
       /\ task[t].client \in live[p]
       /\ PollAccepts(p)
       /\ otp_cache' = [otp_cache EXCEPT ![p] = Entry(m.code, now)]
       /\ task' = [task EXCEPT ![t] = IdleTask]
       /\ last' = Call("check_latest_otp", m.code, "history", NoAge)
       /\ UNCHANGED <<now, active_clients, login_status, monitoring_start_times,
                      live, hist, watchStart>>
       /\ UNCHANGED <<observed, storeVars, loopVars, deviceVars, depositVars>>

(* lines 147-174: no message, no code or too old a code: fall back to the cache *)
PollMiss(t) ==
    LET p == task[t].phone
    IN /\ task[t].pc = "history"
       /\ task[t].client \in live[p]
       /\ ~PollAccepts(p)
       /\ task' = [task EXCEPT ![t] = IdleTask]
       /\ last' = Call("check_latest_otp", get_otp(p), "cache", CacheAge(p))
       /\ UNCHANGED <<now, active_clients, otp_cache, login_status, monitoring_start_times,
                      live, hist, watchStart>>
       /\ UNCHANGED <<observed, storeVars, loopVars, deviceVars, depositVars>>

(* lines 170-174: get_chat_history raised; fall back to the cache *)
PollFailed(t) ==
    LET p == task[t].phone
    IN /\ task[t].pc = "history"
       /\ task' = [task EXCEPT ![t] = IdleTask]
       /\ last' = Call("check_latest_otp", get_otp(p), "cache", CacheAge(p))
       /\ UNCHANGED <<now, active_clients, otp_cache, login_status, monitoring_start_times,
                      live, hist, watchStart>>
       /\ UNCHANGED <<observed, storeVars, loopVars, deviceVars, depositVars>>

(* ---- get_otp / clear_otp, called by a task ---- *)
GetOtp(t, p) ==
    /\ task[t].pc = "idle"
    /\ last' = Call("get_otp", get_otp(p), "cache", CacheAge(p))
    /\ UNCHANGED <<now, active_clients, otp_cache, login_status, monitoring_start_times,
                   live, hist, task, watchStart>>
    /\ UNCHANGED <<observed, storeVars, loopVars, deviceVars, depositVars>>

(* lines 185-188 *)
clear_otp(t, p) ==
    /\ task[t].pc = "idle"
    /\ otp_cache' = [otp_cache EXCEPT ![p] = NoEntry]
    /\ last' = Call("clear_otp", "done", "none", NoAge)
    /\ UNCHANGED <<now, active_clients, login_status, monitoring_start_times,
                   live, hist, task, watchStart>>
    /\ UNCHANGED <<observed, storeVars, loopVars, deviceVars, depositVars>>

(* ---- check_login_status ---- *)
(* LoginNotMonitoring that answers WAITING for a phone number nobody watches *)
LoginNotMonitoring_waits(t, p) ==
    /\ task[t].pc = "idle"
    /\ active_clients[p] = NoClient
    /\ last' = Call("check_login_status", "WAITING", "none", NoAge)
    /\ UNCHANGED <<now, active_clients, otp_cache, login_status, monitoring_start_times,
                   live, hist, task, watchStart>>
    /\ UNCHANGED <<observed, storeVars, loopVars, deviceVars, depositVars>>

(* lines 195-196 *)
LoginNotMonitoring(t, p) ==
    /\ task[t].pc = "idle"
    /\ active_clients[p] = NoClient
    /\ last' = Call("check_login_status", "NOT_MONITORING", "none", NoAge)
    /\ UNCHANGED <<now, active_clients, otp_cache, login_status, monitoring_start_times,
                   live, hist, task, watchStart>>
    /\ UNCHANGED <<observed, storeVars, loopVars, deviceVars, depositVars>>

(* lines 199-200: a login was detected before *)
LoginAlready(t, p) ==
    /\ task[t].pc = "idle"
    /\ active_clients[p] # NoClient
    /\ login_status[p] = "true"
    /\ last' = Call("check_login_status", "LOGGED_IN", "flag", NoAge)
    /\ UNCHANGED <<now, active_clients, otp_cache, login_status, monitoring_start_times,
                   live, hist, task, watchStart>>
    /\ UNCHANGED <<observed, storeVars, loopVars, deviceVars, depositVars>>

(* lines 202-206: suspend in client.get_me() *)
CheckLoginStatus(t, p) ==
    /\ task[t].pc = "idle"
    /\ active_clients[p] # NoClient
    /\ login_status[p] # "true"
    /\ task' = [task EXCEPT ![t] = Suspended("check_login_status", "probe", p, active_clients[p])]
    /\ UNCHANGED <<now, active_clients, otp_cache, login_status, monitoring_start_times,
                   live, hist, watchStart, last>>
    /\ UNCHANGED <<observed, storeVars, loopVars, deviceVars, depositVars>>

(* lines 206-212: get_me returned; suspend in get_chat_history(777000, limit=5) *)
ProbeOk(t) ==
    /\ task[t].pc = "probe"
    /\ task[t].client \in live[task[t].phone]
    /\ task' = [task EXCEPT ![t].pc = "scan"]
    /\ UNCHANGED <<now, active_clients, otp_cache, login_status, monitoring_start_times,
                   live, hist, watchStart, last>>
    /\ UNCHANGED <<observed, storeVars, loopVars, deviceVars, depositVars>>

(* lines 238-243: get_me raised an auth_key_unregistered / session error *)
ProbeRevoked(t) ==
    /\ task[t].pc = "probe"
    /\ login_status' = [login_status EXCEPT ![task[t].phone] = "true"]
    /\ task' = [task EXCEPT ![t] = IdleTask]
    /\ last' = Call("check_login_status", "LOGGED_IN", "revoked", NoAge)
    /\ UNCHANGED <<now, active_clients, otp_cache, monitoring_start_times,
                   live, hist, watchStart>>
    /\ UNCHANGED <<observed, storeVars, loopVars, deviceVars, depositVars>>

(* ProbeFailed that treats every get_me error as a revoked key *)
ProbeFailed_claims(t) ==
    /\ task[t].pc = "probe"
    /\ login_status' = [login_status EXCEPT ![task[t].phone] = "true"]
    /\ task' = [task EXCEPT ![t] = IdleTask]
    /\ last' = Call("check_login_status", "LOGGED_IN", "probe_error", NoAge)
    /\ UNCHANGED <<now, active_clients, otp_cache, monitoring_start_times,
                   live, hist, watchStart>>
    /\ UNCHANGED <<observed, storeVars, loopVars, deviceVars, depositVars>>

(* lines 238-246: get_me raised any other error *)
ProbeFailed(t) ==
    /\ task[t].pc = "probe"
    /\ task' = [task EXCEPT ![t] = IdleTask]
    /\ last' = Call("check_login_status", "WAITING", "probe_error", NoAge)
    /\ UNCHANGED <<now, active_clients, otp_cache, login_status, monitoring_start_times,
                   live, hist, watchStart>>
    /\ UNCHANGED <<observed, storeVars, loopVars, deviceVars, depositVars>>

(* lines 212-230: a login notice newer than the start time was found *)
ScanFound(t) ==
    LET p == task[t].phone
    IN /\ task[t].pc = "scan"
       /\ task[t].client \in live[p]
       /\ FoundLogin(p)
       /\ login_status' = [login_status EXCEPT ![p] = "true"]
       /\ task' = [task EXCEPT ![t] = IdleTask]
       /\ last' = Call("check_login_status", "LOGGED_IN", "notification", NoAge)
       /\ UNCHANGED <<now, active_clients, otp_cache, monitoring_start_times,
                      live, hist, watchStart>>
       /\ UNCHANGED <<observed, storeVars, loopVars, deviceVars, depositVars>>

(* lines 212-236: no such notice *)
ScanNone(t) ==
    LET p == task[t].phone
    IN /\ task[t].pc = "scan"
       /\ task[t].client \in live[p]
       /\ ~FoundLogin(p)
       /\ task' = [task EXCEPT ![t] = IdleTask]
       /\ last' = Call("check_login_status", "WAITING", "none", NoAge)
       /\ UNCHANGED <<now, active_clients, otp_cache, login_status, monitoring_start_times,
                      live, hist, watchStart>>
       /\ UNCHANGED <<observed, storeVars, loopVars, deviceVars, depositVars>>

(* lines 232-236: get_chat_history raised *)
ScanFailed(t) ==
    /\ task[t].pc = "scan"
    /\ task' = [task EXCEPT ![t] = IdleTask]
    /\ last' = Call("check_login_status", "WAITING", "scan_error", NoAge)
    /\ UNCHANGED <<now, active_clients, otp_cache, login_status, monitoring_start_times,
                   live, hist, watchStart>>
    /\ UNCHANGED <<observed, storeVars, loopVars, deviceVars, depositVars>>

(* ---- the network and the clock ---- *)
Message(c, l) == [date |-> now, code |-> c, login |-> l]

(* a message from 777000 reaches the account; no update is dispatched to a handler *)
MessageArrives(p, c, l) ==
    /\ hist' = [hist EXCEPT ![p] = Append(@, Message(c, l))]
    /\ UNCHANGED <<now, active_clients, otp_cache, login_status, monitoring_start_times,
                   live, task, watchStart, last>>
    /\ UNCHANGED <<observed, storeVars, loopVars, deviceVars, depositVars>>

(* lines 48-84: handle_telegram_message of a started client caches the code *)
handle_telegram_message(p, c, l) ==
    /\ live[p] # {}
    /\ c # NoCode
    /\ hist' = [hist EXCEPT ![p] = Append(@, Message(c, l))]
    /\ otp_cache' = [otp_cache EXCEPT ![p] = Entry(c, now)]
    /\ UNCHANGED <<now, active_clients, login_status, monitoring_start_times,
                   live, task, watchStart, last>>
    /\ UNCHANGED <<observed, storeVars, loopVars, deviceVars, depositVars>>

(* datetime.now() advances by a minute *)
Tick ==
    /\ now' = now + 1
    /\ UNCHANGED <<active_clients, otp_cache, login_status, monitoring_start_times,
                   live, hist, task, watchStart, last>>
    /\ UNCHANGED <<observed, storeVars, loopVars, deviceVars, depositVars>>

(* ------------------------------- store -------------------------------- *)
Users == {"u1", "u2"}
Handlers == {"h1", "h2"}
AccountTypes == {"ID", "Session"}
(* Country.price of the one country on sale, and the balances users start with *)
Price == 2
StartBalances == {Price - 1, Price + Price}

IdleHandler == [pc |-> "idle", user |-> "u1", balance |-> 0, account |-> 0]

StoreIdle ==
    /\ balance = [u \in Users |-> 0]
    /\ accounts = <<>>
    /\ purchases = <<>>
    /\ handler = [h \in Handlers |-> IdleHandler]
    /\ lastBuy = "none"

StoreInit ==
    /\ balance \in [Users -> StartBalances]
    /\ accounts = <<>>
    /\ purchases = <<>>
    /\ handler = [h \in Handlers |-> IdleHandler]
    /\ lastBuy = "none"

(* the rows `select(Account).where(is_sold == False, type == "ID")` can return *)
Available == {a \in 1..Len(accounts) : ~accounts[a].is_sold /\ accounts[a].type = "ID"}

(* process_confirm_purchase (bot.py 918-985) and process_buy_id (bot.py 766-807) run the
   same statements on the store; a handler task stands for a call of either. *)
(* bot.py 923-927 / 769-773: the handler opens its session and loads the User row *)
LoadUser(h, u) ==
    /\ handler[h].pc = "idle"
    /\ handler' = [handler EXCEPT ![h] =
                      [pc |-> "loaded", user |-> u, balance |-> balance[u], account |-> 0]]
    /\ UNCHANGED <<balance, accounts, purchases, lastBuy>>
    /\ UNCHANGED <<watcherVars, loopVars, deviceVars, depositVars>>

(* InsufficientBalance without the return of line 952: the handler goes on to the select *)
InsufficientBalance_goes_on(h) ==
    /\ handler[h].pc = "loaded"
    /\ handler[h].balance < Price
    /\ handler' = [handler EXCEPT ![h].pc = "select"]
    /\ UNCHANGED <<balance, accounts, purchases, lastBuy>>
    /\ UNCHANGED <<watcherVars, loopVars, deviceVars, depositVars>>

(* bot.py 938-952 / 784-786: the loaded balance is below the price; answer and return *)
InsufficientBalance(h) ==
    /\ handler[h].pc = "loaded"
    /\ handler[h].balance < Price
    /\ handler' = [handler EXCEPT ![h] = IdleHandler]
    /\ lastBuy' = "insufficient"
    /\ UNCHANGED <<balance, accounts, purchases>>
    /\ UNCHANGED <<watcherVars, loopVars, deviceVars, depositVars>>

(* bot.py 954-960 / 788-790: the balance suffices; suspend in the select of an unsold account *)
SelectAccount(h) ==
    /\ handler[h].pc = "loaded"
    /\ ~(handler[h].balance < Price)
    /\ handler' = [handler EXCEPT ![h].pc = "select"]
    /\ UNCHANGED <<balance, accounts, purchases, lastBuy>>
    /\ UNCHANGED <<watcherVars, loopVars, deviceVars, depositVars>>

(* bot.py 961-972 / 791-795: the select returned no row *)
OutOfStock(h) ==
    /\ handler[h].pc = "select"
    /\ Available = {}
    /\ handler' = [handler EXCEPT ![h] = IdleHandler]
    /\ lastBuy' = "out_of_stock"
    /\ UNCHANGED <<balance, accounts, purchases>>
    /\ UNCHANGED <<watcherVars, loopVars, deviceVars, depositVars>>

(* bot.py 961, 974-984 / 791, 798-807: the select returned row a; the session now holds
   the new balance, the sold flag and the Purchase, and suspends in commit() *)
AccountSelected(h, a) ==
    /\ handler[h].pc = "select"
    /\ a \in Available
    /\ handler' = [handler EXCEPT ![h].pc = "commit", ![h].account = a]
    /\ UNCHANGED <<balance, accounts, purchases, lastBuy>>
    /\ UNCHANGED <<watcherVars, loopVars, deviceVars, depositVars>>

(* bot.py 975-984 / 798-807: commit() flushes UPDATE users SET balance = <loaded - price>,
   UPDATE accounts SET is_sold = true, INSERT INTO purchases, in one transaction *)
Commit(h) ==
    LET u == handler[h].user
        a == handler[h].account
    IN /\ handler[h].pc = "commit"
       /\ balance' = [balance EXCEPT ![u] = handler[h].balance - Price]
       /\ accounts' = [accounts EXCEPT ![a].is_sold = TRUE]
       /\ purchases' = Append(purchases, [user_id |-> u, account_id |-> a, amount |-> Price])
       /\ handler' = [handler EXCEPT ![h] = IdleHandler]
       /\ lastBuy' = "purchased"
       /\ UNCHANGED <<watcherVars, loopVars, deviceVars, depositVars>>

(* add_account that restocks a known phone number by putting its row back on sale *)
add_account_resets(ph, ty) ==
    /\ accounts' =
          IF \E a \in 1..Len(accounts) : accounts[a].phone_number = ph
          THEN [a \in 1..Len(accounts) |->
                   IF accounts[a].phone_number = ph
                   THEN [accounts[a] EXCEPT !.is_sold = FALSE] ELSE accounts[a]]
          ELSE Append(accounts, [phone_number |-> ph, type |-> ty, is_sold |-> FALSE])
    /\ UNCHANGED <<balance, purchases, handler, lastBuy>>
    /\ UNCHANGED <<watcherVars, loopVars, deviceVars, depositVars>>

(* main.py 364-380: POST /admin/accounts inserts a new unsold row, no duplicate check *)
add_account(ph, ty) ==
    /\ accounts' = Append(accounts, [phone_number |-> ph, type |-> ty, is_sold |-> FALSE])
    /\ UNCHANGED <<balance, purchases, handler, lastBuy>>
    /\ UNCHANGED <<watcherVars, loopVars, deviceVars, depositVars>>

(* ------------------------------ poll loop ----------------------------- *)
(* bot.py 1092-1238: show_otp_waiting calls itself; a frame is one activation *)
Frame(a, l) == [attempt |-> a, pc |-> l]
(* ticks, done: the sleeps of the run and whether it stopped the watch; caller, purchase,
   button, hash: the callback query the running handler serves; shown: the code that
   the code text showed last; mark: the messages in the chat history of the account when
   the button was pressed *)
NoRun == [ticks |-> 0, done |-> FALSE, caller |-> "none", purchase |-> 0,
          button |-> "none", hash |-> 0, shown |-> "none", mark |-> 0]

LoopIdle ==
    /\ frames = <<>>
    /\ screen = "none"
    /\ run = NoRun

Top == frames[Len(frames)]
TopPc == IF frames = <<>> THEN "none" ELSE Top.pc
Pop == SubSeq(frames, 1, Len(frames) - 1)
SetTop(l) == [frames EXCEPT ![Len(frames)].pc = l]
(* the awaited call of the session manager has returned to the loop *)
Returned(t, o) == task[t].pc = "idle" /\ last.op = o

(* bot.py 1063-1071: process_get_otp, after start_monitoring returned, sends the
   "Starting OTP monitoring" message and calls show_otp_waiting with attempt 0 *)
LoopStart(t, p) ==
    /\ frames = <<>>
    /\ screen = "none"
    /\ task[t].pc = "idle"
    /\ active_clients[p] # NoClient
    /\ frames' = <<Frame(0, "status")>>
    /\ screen' = "starting"
    /\ UNCHANGED <<run, watcherVars, storeVars, deviceVars, depositVars>>

(* lines 1097-1119: check_login_status returned LOGGED_IN; show it, go on to stop_monitoring *)
LoopClaimed(t) ==
    /\ TopPc = "status"
    /\ Returned(t, "check_login_status")
    /\ last.result = "LOGGED_IN"
    /\ screen' = "done"
    /\ frames' = SetTop("stop")
    /\ UNCHANGED <<run, watcherVars, storeVars, deviceVars, depositVars>>

(* lines 1097-1098, 1124: any other status; go on to check_latest_otp *)
LoopNotClaimed(t) ==
    /\ TopPc = "status"
    /\ Returned(t, "check_login_status")
    /\ last.result # "LOGGED_IN"
    /\ frames' = SetTop("poll")
    /\ UNCHANGED <<screen, run, watcherVars, storeVars, deviceVars, depositVars>>

(* lines 1119-1120: stop_monitoring returned; this activation returns *)
LoopStopped(t) ==
    /\ TopPc = "stop"
    /\ Returned(t, "stop_monitoring")
    /\ frames' = Pop
    /\ run' = [run EXCEPT !.done = TRUE]
    /\ UNCHANGED <<screen, watcherVars, storeVars, deviceVars, depositVars>>

(* lines 1126-1176: a code came back; show it and sleep 5 seconds *)
LoopCode(t) ==
    /\ TopPc = "poll"
    /\ Returned(t, "check_latest_otp")
    /\ last.result # NoCode
    /\ screen' = "code"
    /\ frames' = SetTop("code_sleep")
    /\ run' = [run EXCEPT !.shown = last.result]
    /\ UNCHANGED <<watcherVars, storeVars, deviceVars, depositVars>>

(* the statements after the code branch are reached when no code came back and when
   the call of line 1178 has returned: line 1178 is not followed by a return *)
ShowsWaiting(t) ==
    \/ TopPc = "code_call"
    \/ TopPc = "poll" /\ Returned(t, "check_latest_otp") /\ last.result = NoCode

(* lines 1180-1227: show the waiting text; attempt < 24, sleep 5 seconds *)
LoopWaiting(t) ==
    /\ ShowsWaiting(t)
    /\ Top.attempt < LAST_ATTEMPT
    /\ screen' = "waiting"
    /\ frames' = SetTop("wait_sleep")
    /\ UNCHANGED <<run, watcherVars, storeVars, deviceVars, depositVars>>

(* lines 1180-1224, 1228-1238: show the waiting text, then the timeout text; return *)
LoopTimeout(t) ==
    /\ ShowsWaiting(t)
    /\ ~(Top.attempt < LAST_ATTEMPT)
    /\ screen' = "timeout"
    /\ frames' = Pop
    /\ UNCHANGED <<run, watcherVars, storeVars, deviceVars, depositVars>>

(* lines 1177-1178 and 1226-1227: the sleep is over; show_otp_waiting(attempt + 1) *)
LoopWake ==
    /\ TopPc \in {"code_sleep", "wait_sleep"}
    /\ frames' = Append(SetTop(IF TopPc = "code_sleep" THEN "code_call" ELSE "wait_call"),
                        Frame(Top.attempt + 1, "status"))
    /\ run' = [run EXCEPT !.ticks = @ + 1]
    /\ UNCHANGED <<screen, watcherVars, storeVars, deviceVars, depositVars>>

(* line 1227 returned: the activation ends *)
LoopReturn ==
    /\ TopPc = "wait_call"
    /\ frames' = Pop
    /\ UNCHANGED <<screen, run, watcherVars, storeVars, deviceVars, depositVars>>

(* --------------------------- device manager --------------------------- *)
(* device_manager.py 20-113: a call of get_active_sessions or terminate_session *)
NoHash == 0
Hashes == {1, 2}
(* connected: client.is_connected; opened: connect() returned during the call;
   result: what the call returned, "raised" when it raised *)
IdleDevice == [op |-> "idle", pc |-> "idle", connected |-> FALSE, opened |-> FALSE,
               hash |-> NoHash, result |-> "none"]

DeviceIdle ==
    /\ dev = IdleDevice
    /\ auths = {}

(* lines 20-33 / 76-89: construct the temporary Client, suspend in client.connect() *)
DevCall(o, h) ==
    /\ dev.pc = "idle"
    /\ dev' = [op |-> o, pc |-> "connect", connected |-> FALSE, opened |-> FALSE,
               hash |-> h, result |-> "none"]
    /\ UNCHANGED <<auths, watcherVars, storeVars, loopVars, depositVars>>

get_active_sessions == DevCall("get_active_sessions", NoHash)
terminate_session(h) == DevCall("terminate_session", h)

(* lines 33 / 89: connect() returned *)
DevConnected ==
    /\ dev.pc = "connect"
    /\ dev' = [dev EXCEPT !.connected = TRUE, !.opened = TRUE,
                          !.pc = IF dev.op = "terminate_session" THEN "reset" ELSE "list"]
    /\ UNCHANGED <<auths, watcherVars, storeVars, loopVars, depositVars>>

(* an awaited call of the try block raised: lines 69-71 / 108-110 log and re-raise,
   the finally block is next *)
DevRaised ==
    /\ dev.pc \in {"connect", "list", "get_me", "reset", "verify"}
    /\ dev' = [dev EXCEPT !.result = "raised", !.pc = "finally"]
    /\ UNCHANGED <<auths, watcherVars, storeVars, loopVars, depositVars>>

(* lines 36-41: GetAuthorizations returned; suspend in get_me() *)
DevListed ==
    /\ dev.pc = "list"
    /\ dev' = [dev EXCEPT !.pc = "get_me"]
    /\ UNCHANGED <<auths, watcherVars, storeVars, loopVars, depositVars>>

(* lines 41-67: get_me returned; the result list is built and returned *)
DevGotMe ==
    /\ dev.pc = "get_me"
    /\ dev' = [dev EXCEPT !.result = "sessions", !.pc = "finally"]
    /\ UNCHANGED <<auths, watcherVars, storeVars, loopVars, depositVars>>

(* DevResetDone that also drops the watcher's client and login flag of the account *)
DevResetDone_unregisters ==
    /\ dev.pc = "reset"
    /\ auths' = auths \ {dev.hash}
    /\ dev' = [dev EXCEPT !.pc = "verify"]
    /\ active_clients' = [p \in Phones |-> NoClient]
    /\ login_status' = [p \in Phones |-> "absent"]
    /\ UNCHANGED <<now, otp_cache, monitoring_start_times, live, hist, task, watchStart,
                   last, observed, storeVars, loopVars, depositVars>>

(* lines 94-99: ResetAuthorization returned and Telegram dropped the authorization *)
DevResetDone ==
    /\ dev.pc = "reset"
    /\ auths' = auths \ {dev.hash}
    /\ dev' = [dev EXCEPT !.pc = "verify"]
    /\ UNCHANGED <<watcherVars, storeVars, loopVars, depositVars>>

(* lines 94-99: ResetAuthorization returned but the authorization is still there *)
DevResetIgnored ==
    /\ dev.pc = "reset"
    /\ dev' = [dev EXCEPT !.pc = "verify"]
    /\ UNCHANGED <<auths, watcherVars, storeVars, loopVars, depositVars>>

(* DevVerified that trusts the reset call and skips the test of line 102 *)
DevVerified_trusts ==
    /\ dev.pc = "verify"
    /\ dev' = [dev EXCEPT !.result = "true", !.pc = "finally"]
    /\ UNCHANGED <<auths, watcherVars, storeVars, loopVars, depositVars>>

(* lines 99-107: the second GetAuthorizations returned; raise when the hash is still
   listed, return True otherwise *)
DevVerified ==
    /\ dev.pc = "verify"
    /\ dev' = [dev EXCEPT !.result = IF dev.hash \in auths THEN "raised" ELSE "true",
                          !.pc = "finally"]
    /\ UNCHANGED <<auths, watcherVars, storeVars, loopVars, depositVars>>

(* DevFinally that disconnects only after a normal return *)
DevFinally_leaks ==
    /\ dev.pc = "finally"
    /\ dev' = [dev EXCEPT !.connected = IF dev.result = "raised" THEN @ ELSE FALSE,
                          !.pc = "idle"]
    /\ UNCHANGED <<auths, watcherVars, storeVars, loopVars, depositVars>>

(* lines 72-74 / 111-113: disconnect when connected; the call ends *)
DevFinally ==
    /\ dev.pc = "finally"
    /\ dev' = [dev EXCEPT !.connected = FALSE, !.pc = "idle"]
    /\ UNCHANGED <<auths, watcherVars, storeVars, loopVars, depositVars>>

(* a device logs in to the account: Telegram lists one more authorization *)
Authorized(h) ==
    /\ h \notin auths
    /\ auths' = auths \cup {h}
    /\ UNCHANGED <<dev, watcherVars, storeVars, loopVars, depositVars>>

(* ---- deposits (bot.py 192-468, main.py 493-545, models.py 54-64) ---- *)

MIN_UTR_LEN == 6
NoData == "none"          \* data.get(key) for a key the FSM data does not hold: None
NoAmount == 0
NoState == "none"
UtrTexts == {"123", "utr001"}
AmountTexts == {[digits |-> FALSE, value |-> 0], [digits |-> TRUE, value |-> 1]}
Statuses == {"APPROVED", "REJECTED"}

(* len(message.text) of the texts a user sends as a UTR *)
TextLen(text) == IF text = "123" THEN 3 ELSE 6

(* FSMContext of one user: the state and the keys of its data that the deposit flow uses *)
NoFsm == [state |-> NoState, deposit_amount |-> NoAmount, utr_id |-> NoData,
          deposit_utr |-> NoData, temp_photo_id |-> NoData]

DepositIdle ==
    /\ fsm = [u \in Users |-> NoFsm]
    /\ deposits = <<>>

(* process_deposit_method_upi (bot.py 192-200) *)
process_deposit_method_upi(u) ==
    /\ fsm' = [fsm EXCEPT ![u].state = "waiting_for_amount"]
    /\ UNCHANGED <<deposits, watcherVars, storeVars, loopVars, deviceVars>>

(* process_deposit_amount (bot.py 202-210) *)
process_deposit_amount(u, text) ==
    /\ fsm[u].state = "waiting_for_amount"
    /\ fsm' = IF text.digits
                 THEN [fsm EXCEPT ![u].deposit_amount = text.value,
                                  ![u].state = "waiting_for_utr"]
                 ELSE fsm
    /\ UNCHANGED <<deposits, watcherVars, storeVars, loopVars, deviceVars>>

(* the row `select(Deposit).where(Deposit.upi_ref_id == utr_id)` finds (bot.py 292-295) *)
Existing(utr_id) == {d \in 1..Len(deposits) : deposits[d].upi_ref_id = utr_id}

(* process_deposit_utr (bot.py 283-307) *)
process_deposit_utr(u, utr_id) ==
    /\ fsm[u].state = "waiting_for_utr"
    /\ fsm' = IF TextLen(utr_id) < MIN_UTR_LEN \/ Existing(utr_id) # {}
                 THEN fsm
                 ELSE [fsm EXCEPT ![u].utr_id = utr_id, ![u].state = "confirming_utr"]
    /\ UNCHANGED <<deposits, watcherVars, storeVars, loopVars, deviceVars>>

(* process_utr_confirmed (bot.py 322-324) *)
process_utr_confirmed(u) ==
    /\ fsm[u].state = "confirming_utr"
    /\ fsm' = [fsm EXCEPT ![u].state = "waiting_for_screenshot"]
    /\ UNCHANGED <<deposits, watcherVars, storeVars, loopVars, deviceVars>>

(* process_reenter_utr (bot.py 332-334) *)
process_reenter_utr(u) ==
    /\ fsm[u].state = "confirming_utr"
    /\ fsm' = [fsm EXCEPT ![u].state = "waiting_for_utr"]
    /\ UNCHANGED <<deposits, watcherVars, storeVars, loopVars, deviceVars>>

(* process_deposit_screenshot (bot.py 341-346) *)
process_deposit_screenshot(u) ==
    /\ fsm[u].state = "waiting_for_screenshot"
    /\ fsm' = [fsm EXCEPT ![u].temp_photo_id = "photo", ![u].state = "confirming_screenshot"]
    /\ UNCHANGED <<deposits, watcherVars, storeVars, loopVars, deviceVars>>

(* process_reupload_screenshot (bot.py 360-362) *)
process_reupload_screenshot(u) ==
    /\ fsm[u].state = "confirming_screenshot"
    /\ fsm' = [fsm EXCEPT ![u].state = "waiting_for_screenshot"]
    /\ UNCHANGED <<deposits, watcherVars, storeVars, loopVars, deviceVars>>

(* `upi_ref_id = Column(String, unique=True)` (models.py 59): the insert is refused when
   another row holds the same value; rows whose value is NULL never collide *)
UniqueOk(utr_id) == utr_id = NoData \/ Existing(utr_id) = {}

(* process_deposit_final_confirm (bot.py 377-468) when the upload and the commit succeed:
   the row takes its amount from the key "deposit_amount" and its reference from the key
   "deposit_utr". `entered` is not a column: it notes the UTR the user entered and
   confirmed, which process_deposit_utr left under the key "utr_id". *)
process_deposit_final_confirm(u) ==
    /\ fsm[u].state = "confirming_screenshot"
    /\ UniqueOk(fsm[u].deposit_utr)
    /\ deposits' = Append(deposits, [user_id |-> u,
                                     amount |-> fsm[u].deposit_amount,
                                     upi_ref_id |-> fsm[u].deposit_utr,
                                     status |-> "PENDING",
                                     entered |-> fsm[u].utr_id])
    /\ fsm' = [fsm EXCEPT ![u] = NoFsm]
    /\ UNCHANGED <<watcherVars, storeVars, loopVars, deviceVars>>

(* process_deposit_final_confirm when the upload or the commit raises (bot.py 404, 464-468):
   the error is reported, no row is written and the state is cleared *)
FinalConfirmFailed(u) ==
    /\ fsm[u].state = "confirming_screenshot"
    /\ fsm' = [fsm EXCEPT ![u] = NoFsm]
    /\ UNCHANGED <<deposits, watcherVars, storeVars, loopVars, deviceVars>>

(* update_deposit (main.py 493-545) on an existing deposit *)
update_deposit(deposit_id, status) ==
    /\ deposit_id \in 1..Len(deposits)
    /\ deposits' = [deposits EXCEPT ![deposit_id].status = status]
    /\ balance' = IF status = "APPROVED"
                     THEN [balance EXCEPT ![deposits[deposit_id].user_id] =
                                             @ + deposits[deposit_id].amount]
                     ELSE balance
    /\ UNCHANGED <<fsm, accounts, purchases, handler, lastBuy,
                   watcherVars, loopVars, deviceVars>>

(* StoreSpec: two purchase handlers and the admin API work on one store *)
StoreNext ==
    \/ \E h \in Handlers, u \in Users : LoadUser(h, u)
    \/ \E h \in Handlers :
          \/ InsufficientBalance(h)
          \/ SelectAccount(h)
          \/ OutOfStock(h)
          \/ \E a \in 1..Len(accounts) : AccountSelected(h, a)
          \/ Len(purchases) < MaxPurchases /\ Commit(h)
    \/ \E ph \in Phones, ty \in AccountTypes :
          Len(accounts) < MaxAccounts /\ add_account(ph, ty)

StoreSpecInit == WatcherInit /\ observed = {} /\ StoreInit /\ LoopIdle /\ DeviceIdle /\ DepositIdle
StoreSpec == StoreSpecInit /\ [][StoreNext]_vars

Init == WatcherInit /\ observed = {"start_monitoring"} /\ StoreIdle /\ LoopIdle /\ DeviceIdle /\ DepositIdle
SeqInit == WatcherInit /\ observed = {} /\ StoreIdle /\ LoopIdle /\ DeviceIdle /\ DepositIdle

(* Client objects are named 1..pool; an object that nothing refers to any more gives its
   name back.  NewClient is the name of the next object, NoClient when the pool is used up *)
ClientsInUse ==
    UNION {live[p] : p \in Phones} \cup {active_clients[p] : p \in Phones}
        \cup {task[t].client : t \in Tasks}
NewClient(pool) ==
    IF (1..pool) \ ClientsInUse = {} THEN NoClient
    ELSE CHOOSE c \in (1..pool) \ ClientsInUse : \A d \in (1..pool) \ ClientsInUse : c <= d

(* the messages in all chat histories *)
RECURSIVE CountMsgs(_)
CountMsgs(S) ==
    IF S = {} THEN 0
    ELSE LET p == CHOOSE x \in S : TRUE IN Len(hist[p]) + CountMsgs(S \ {p})

(* Spec: two tasks race on one phone number *)
Next ==
    \/ \E t \in Tasks, p \in Raced :
          \/ AlreadyMonitoring(t, p)
          \/ NewClient(MaxClients) # NoClient /\ StartMonitoring(t, p, NewClient(MaxClients))
          \/ StopAbsent(t, p)
          \/ StopMonitoring(t, p)
          \/ PollNotMonitoring(t, p)
          \/ CheckLatestOtp(t, p)
          \/ GetOtp(t, p)
          \/ clear_otp(t, p)
          \/ LoginNotMonitoring(t, p)
          \/ LoginAlready(t, p)
          \/ CheckLoginStatus(t, p)
    \/ \E t \in Tasks :
          \/ ClientStarted(t)
          \/ ClientStartFailed(t)
          \/ RegisterClient(t)
          \/ ClientStopped(t)
          \/ ClientStopFailed(t)
          \/ PollHit(t)
          \/ PollMiss(t)
          \/ PollFailed(t)
          \/ ProbeOk(t)
          \/ ProbeRevoked(t)
          \/ ProbeFailed(t)
          \/ ScanFound(t)
          \/ ScanNone(t)
          \/ ScanFailed(t)
    \/ \E p \in Raced, k \in MessageKinds :
          \/ CountMsgs(Phones) < MaxMsgs /\ MessageArrives(p, k[1], k[2])
          \/ CountMsgs(Phones) < MaxMsgs /\ handle_telegram_message(p, k[1], k[2])
    \/ now < MaxTime /\ Tick

Spec == Init /\ [][Next]_vars

(* SeqSpec: one task starts, stops and probes the watches of two phone numbers *)
SeqNext ==
    \/ \E t \in OneTask, p \in Phones :
          \/ AlreadyMonitoring(t, p)
          \/ NewClient(SeqClients) # NoClient /\ StartMonitoring(t, p, NewClient(SeqClients))
          \/ StopAbsent(t, p)
          \/ StopMonitoring(t, p)
          \/ LoginNotMonitoring(t, p)
          \/ LoginAlready(t, p)
          \/ CheckLoginStatus(t, p)
    \/ \E t \in OneTask :
          \/ ClientStarted(t)
          \/ ClientStartFailed(t)
          \/ RegisterClient(t)
          \/ ClientStopped(t)
          \/ ClientStopFailed(t)
          \/ ProbeOk(t)
          \/ ProbeRevoked(t)
          \/ ProbeFailed(t)
          \/ ScanFound(t)
          \/ ScanNone(t)
          \/ ScanFailed(t)
    \/ \E p \in Phones, k \in MessageKinds :
          \/ CountMsgs(Phones) < SeqMsgs /\ MessageArrives(p, k[1], k[2])
          \/ CountMsgs(Phones) < SeqMsgs /\ handle_telegram_message(p, k[1], k[2])
    \/ now < SeqTime /\ Tick

SeqSpec == SeqInit /\ [][SeqNext]_vars

(* CacheSpec: one task watches one phone number until cached codes expire *)
CacheNext ==
    \/ \E t \in OneTask, p \in Raced :
          \/ AlreadyMonitoring(t, p)
          \/ NewClient(CacheClients) # NoClient /\ StartMonitoring(t, p, NewClient(CacheClients))
          \/ StopAbsent(t, p)
          \/ StopMonitoring(t, p)
          \/ PollNotMonitoring(t, p)
          \/ CheckLatestOtp(t, p)
          \/ GetOtp(t, p)
          \/ clear_otp(t, p)
          \/ LoginNotMonitoring(t, p)
          \/ LoginAlready(t, p)
          \/ CheckLoginStatus(t, p)
    \/ \E t \in OneTask :
          \/ ClientStarted(t)
          \/ ClientStartFailed(t)
          \/ RegisterClient(t)
          \/ ClientStopped(t)
          \/ ClientStopFailed(t)
          \/ PollHit(t)
          \/ PollMiss(t)
          \/ PollFailed(t)
          \/ ProbeOk(t)
          \/ ProbeRevoked(t)
          \/ ProbeFailed(t)
          \/ ScanFound(t)
          \/ ScanNone(t)
          \/ ScanFailed(t)
    \/ \E p \in Raced, k \in MessageKinds :
          \/ CountMsgs(Phones) < CacheMsgs /\ MessageArrives(p, k[1], k[2])
          \/ CountMsgs(Phones) < CacheMsgs /\ handle_telegram_message(p, k[1], k[2])
    \/ now < MaxClock /\ Tick

CacheInit ==
    WatcherInit /\ observed = {"get_otp", "check_latest_otp"} /\ StoreIdle /\ LoopIdle /\ DeviceIdle /\ DepositIdle
CacheSpec == CacheInit /\ [][CacheNext]_vars

(* LoginSpec: two tasks open, close and probe the watch of a purchased account *)
(* the store after u1 bought the account of p1 (bot.py 974-984) *)
Purchased ==
    /\ balance = [u \in Users |-> 0]
    /\ accounts = <<[phone_number |-> "p1", type |-> "ID", is_sold |-> TRUE]>>
    /\ purchases = <<[user_id |-> "u1", account_id |-> 1, amount |-> Price]>>
    /\ handler = [h \in Handlers |-> IdleHandler]
    /\ lastBuy = "purchased"

LoginInit ==
    /\ WatcherInit
    /\ observed = {"check_login_status", "start_monitoring returns"}
    /\ Purchased /\ LoopIdle /\ DeviceIdle /\ DepositIdle

LoginNext ==
    \/ \E t \in Tasks, p \in Raced :
          \/ AlreadyMonitoring(t, p)
          \/ NewClient(LoginClients) # NoClient /\ StartMonitoring(t, p, NewClient(LoginClients))
          \/ StopAbsent(t, p)
          \/ StopMonitoring(t, p)
          \/ LoginNotMonitoring(t, p)
          \/ LoginAlready(t, p)
          \/ CheckLoginStatus(t, p)
    \/ \E t \in Tasks :
          \/ ClientStarted(t)
          \/ ClientStartFailed(t)
          \/ RegisterClient(t)
          \/ ClientStopped(t)
          \/ ClientStopFailed(t)
          \/ ProbeOk(t)
          \/ ProbeRevoked(t)
          \/ ProbeFailed(t)
          \/ ScanFound(t)
          \/ ScanNone(t)
          \/ ScanFailed(t)
    \/ \E p \in Raced, k \in MessageKinds :
          \/ CountMsgs(Phones) < LoginMsgs /\ MessageArrives(p, k[1], k[2])
          \/ CountMsgs(Phones) < LoginMsgs /\ handle_telegram_message(p, k[1], k[2])

LoginSpec == LoginInit /\ [][LoginNext]_vars

(* LoopSpec: task t1 runs process_get_otp and the poll loop for the purchased account
   of p1; task t2 is the admin endpoint stopping the watch while the loop sleeps.
   No call to Telegram fails except get_me on a revoked key; the loop stops the watch
   as soon as the login flag is set, so its calls never take the branches of
   check_login_status and stop_monitoring for a set flag or an absent client. *)
Looper == "t1"
Admin == "t2"
LoopInit ==
    /\ WatcherInit
    /\ observed = {"check_login_status", "check_latest_otp", "stop_monitoring"}
    /\ Purchased /\ LoopIdle /\ DeviceIdle /\ DepositIdle

LoopNext ==
    \/ \E p \in Raced :
          \/ /\ frames = <<>> /\ screen = "none" /\ NewClient(LoopClients) # NoClient
             /\ StartMonitoring(Looper, p, NewClient(LoopClients))
          \/ LoopStart(Looper, p)
          \/ TopPc = "status" /\ last.op # "check_login_status" /\ LoginNotMonitoring(Looper, p)
          \/ TopPc = "status" /\ last.op # "check_login_status" /\ CheckLoginStatus(Looper, p)
          \/ TopPc = "poll" /\ last.op # "check_latest_otp" /\ PollNotMonitoring(Looper, p)
          \/ TopPc = "poll" /\ last.op # "check_latest_otp" /\ CheckLatestOtp(Looper, p)
          \/ TopPc = "stop" /\ last.op # "stop_monitoring" /\ StopMonitoring(Looper, p)
          \/ TopPc \in {"code_sleep", "wait_sleep"} /\ StopMonitoring(Admin, p)
    \/ \E t \in Tasks :
          \/ ClientStarted(t)
          \/ RegisterClient(t)
          \/ ClientStopped(t)
          \/ PollHit(t)
          \/ PollMiss(t)
          \/ ProbeOk(t)
          \/ ProbeRevoked(t)
          \/ ScanFound(t)
          \/ ScanNone(t)
    \/ LoopClaimed(Looper)
    \/ LoopNotClaimed(Looper)
    \/ LoopStopped(Looper)
    \/ LoopCode(Looper)
    \/ LoopWaiting(Looper)
    \/ LoopTimeout(Looper)
    \/ run.ticks < LoopTicks /\ task[Admin].pc = "idle" /\ LoopWake
    \/ LoopReturn
    \/ \E p \in Raced, k \in MessageKinds :
          \/ CountMsgs(Phones) < LoopMsgs /\ MessageArrives(p, k[1], k[2])
          \/ CountMsgs(Phones) < LoopMsgs /\ handle_telegram_message(p, k[1], k[2])

LoopSpec == LoopInit /\ [][LoopNext]_vars

(* DeviceSpec: the bot lists and revokes the sessions of the purchased account of p1
   while a task opens and closes the watch of the same account *)
DeviceInit ==
    /\ WatcherInit
    /\ observed = {}
    /\ Purchased /\ LoopIdle /\ DeviceIdle /\ DepositIdle

DeviceNext ==
    \/ get_active_sessions
    \/ \E h \in Hashes : terminate_session(h)
    \/ DevConnected
    \/ DevRaised
    \/ DevListed
    \/ DevGotMe
    \/ DevResetDone
    \/ DevResetIgnored
    \/ DevVerified
    \/ DevFinally
    \/ \E h \in Hashes : Authorized(h)
    \/ \E t \in OneTask, p \in Raced :
          \/ AlreadyMonitoring(t, p)
          \/ NewClient(DevClients) # NoClient /\ StartMonitoring(t, p, NewClient(DevClients))
          \/ StopAbsent(t, p)
          \/ StopMonitoring(t, p)
    \/ \E t \in OneTask :
          \/ ClientStarted(t)
          \/ ClientStartFailed(t)
          \/ RegisterClient(t)
          \/ ClientStopped(t)
          \/ ClientStopFailed(t)

DeviceSpec == DeviceInit /\ [][DeviceNext]_vars

(* StaleSpec: one task opens or refreshes the watch of p1 and polls it while messages
   and cached codes grow older than the freshness window; no call to Telegram fails
   except get_chat_history *)
StaleInit ==
    /\ WatcherInit
    /\ observed = {"start_monitoring", "get_otp", "check_latest_otp"}
    /\ Purchased /\ LoopIdle /\ DeviceIdle /\ DepositIdle

StaleNext ==
    \/ \E t \in OneTask, p \in Raced :
          \/ AlreadyMonitoring(t, p)
          \/ NewClient(StaleClients) # NoClient /\ StartMonitoring(t, p, NewClient(StaleClients))
          \/ CheckLatestOtp(t, p)
          \/ GetOtp(t, p)
    \/ \E t \in OneTask :
          \/ ClientStarted(t)
          \/ RegisterClient(t)
          \/ PollHit(t)
          \/ PollMiss(t)
          \/ PollFailed(t)
    \/ \E p \in Raced, k \in MessageKinds :
          \/ CountMsgs(Phones) < StaleMsgs /\ MessageArrives(p, k[1], k[2])
          \/ CountMsgs(Phones) < StaleMsgs /\ handle_telegram_message(p, k[1], k[2])
    \/ now < StaleClock /\ Tick

StaleSpec == StaleInit /\ [][StaleNext]_vars

(* ------------------------------- claims ------------------------------- *)
PurchasesOf(a) == {i \in 1..Len(purchases) : purchases[i].account_id = a}

(* C1: under any interleaving of purchase confirmations, at most one Purchase row
   references an Account. *)
C1_OnePurchasePerAccount ==
    \A a \in 1..Len(accounts) : Cardinality(PurchasesOf(a)) <= 1

(* C2: check_latest_otp never returns or caches a code taken from a message whose
   timestamp is earlier than the start of the watch. *)
C2_PollIgnoresOlderThanWatch ==
    [][\A t \in Tasks :
          PollHit(t) =>
              hist[task[t].phone][Len(hist[task[t].phone])].date >= watchStart[task[t].phone]]_vars

(* C3: check_login_status returns LOGGED_IN for a login notice only if the notice is
   strictly newer than the start of the watch, also for a watch just opened. *)
C3_ClaimOnlyFromNewerLogin ==
    [][\A t \in Tasks :
          ScanFound(t) => FoundLoginDate(task[t].phone) > watchStart[task[t].phone]]_vars

(* C4: at every instant at most one live connection exists for a phone number. *)
C4_OneLiveConnection ==
    \A p \in Phones : Cardinality(live[p]) <= 1

(* C5: start_monitoring for a phone number that is already monitored changes nothing but
   that phone's start time: the registry, the connections, the cached codes, the login
   flags and the other phones' start times stay as they are. *)
C5_RestartOnlyRefreshesStart ==
    [][\A t \in Tasks, p \in Phones :
          AlreadyMonitoring(t, p) =>
              /\ active_clients' = active_clients
              /\ live' = live
              /\ otp_cache' = otp_cache
              /\ login_status' = login_status
              /\ monitoring_start_times'[p] = now
              /\ \A q \in Phones \ {p} : monitoring_start_times'[q] = monitoring_start_times[q]]_vars

(* a phone with a cached code and a detected login was restarted while another phone was watched *)
C5_Witness ==
    \E p \in Phones, q \in Phones :
        /\ p # q
        /\ monitoring_start_times[p] > 0
        /\ active_clients[p] # NoClient
        /\ active_clients[q] # NoClient
        /\ login_status[p] = "true"
        /\ otp_cache[p].present

(* C6: get_otp, called directly or as the fallback of check_latest_otp, returns the cached
   code exactly when the entry is less than 5 minutes old at the read. *)
C6_CacheServedOnlyWhileFresh ==
    last.basis = "cache" =>
        (last.result # NoCode <=> (last.age # NoAge /\ last.age < FRESH_MINUTES))

(* the fallback of check_latest_otp refused an entry that is still in the cache *)
C6_Witness ==
    /\ last.op = "check_latest_otp"
    /\ last.basis = "cache"
    /\ last.result = NoCode
    /\ last.age >= FRESH_MINUTES
    /\ \E p \in Phones : otp_cache[p].present /\ now - otp_cache[p].timestamp = last.age

(* C7: a confirmation that commits lowers the buyer's balance by exactly the price, turns
   exactly one unsold Account sold and inserts exactly one Purchase for it. *)
C7_CommitIsExact ==
    [][\A h \in Handlers :
          Commit(h) =>
              /\ balance'[handler[h].user] = balance[handler[h].user] - Price
              /\ ~accounts[handler[h].account].is_sold
              /\ accounts'[handler[h].account].is_sold
              /\ Len(purchases') = Len(purchases) + 1]_vars

(* C8: a handler whose buyer's balance is below the price, or that finds no unsold
   account, ends with a rejection and leaves balances, accounts and purchases alone. *)
C8_RejectionsLeaveStore ==
    [][\A h \in Handlers :
          /\ (handler[h].pc = "loaded" /\ handler[h].balance < Price /\ handler'[h] # handler[h])
                => /\ lastBuy' = "insufficient"
                   /\ handler'[h].pc = "idle"
                   /\ <<balance, accounts, purchases>>' = <<balance, accounts, purchases>>
          /\ (handler[h].pc = "select" /\ Available = {} /\ handler'[h] # handler[h])
                => /\ lastBuy' = "out_of_stock"
                   /\ handler'[h].pc = "idle"
                   /\ <<balance, accounts, purchases>>' = <<balance, accounts, purchases>>]_vars

(* a buyer was turned away for his balance while an account was on sale *)
C8_Witness ==
    /\ lastBuy = "insufficient"
    /\ Available # {}
    /\ purchases = <<>>
    /\ \E u \in Users : balance[u] < Price

(* C9: a sold Account row stays sold, and restocking appends an unsold row and leaves
   the rows and purchases that exist untouched. *)
C9_SoldStaysSold ==
    [][/\ \A a \in 1..Len(accounts) :
             accounts[a].is_sold => (a <= Len(accounts') /\ accounts'[a].is_sold)
       /\ \A ph \in Phones, ty \in AccountTypes :
             add_account(ph, ty) =>
                 /\ Len(accounts') = Len(accounts) + 1
                 /\ SubSeq(accounts', 1, Len(accounts)) = accounts
                 /\ ~accounts'[Len(accounts')].is_sold
                 /\ purchases' = purchases]_vars

(* a sold phone number was restocked: its sold row and Purchase are there, next to a new unsold row *)
C9_Witness ==
    \E a \in 1..Len(accounts), b \in 1..Len(accounts) :
        /\ a < b
        /\ accounts[a].phone_number = accounts[b].phone_number
        /\ accounts[a].is_sold
        /\ ~accounts[b].is_sold
        /\ PurchasesOf(a) # {}

(* C10: while a phone is monitored, its login flag, once true, stays true until
   stop_monitoring ends the watch. *)
C10_ClaimedIsTerminal ==
    [][\A p \in Phones :
          (active_clients[p] # NoClient /\ login_status[p] = "true" /\ login_status'[p] # "true")
              => \E t \in Tasks :
                    task[t].pc = "client_stop" /\ task[t].phone = p /\ task'[t].pc = "idle"]_vars

(* C13: stop_monitoring never raises and, when it returns, active_clients holds no
   entry and otp_cache no code for the phone number: when nothing was registered,
   when a client was, and when client.stop() raised. *)
C13_StopEvicts ==
    [][\A t \in Tasks, p \in Phones :
          (\/ StopAbsent(t, p)
           \/ task[t].phone = p /\ (ClientStopped(t) \/ ClientStopFailed(t)))
             => /\ active_clients'[p] = NoClient
                /\ ~otp_cache'[p].present]_vars

(* C14: check_login_status never raises and returns NOT_MONITORING, LOGGED_IN or
   WAITING; it returns NOT_MONITORING exactly when no client is registered for the
   phone number at the call, and then without suspending and without a change of the
   watcher's state. *)
C14_StatusTotal ==
    [][\A t \in Tasks :
          /\ \A p \in Raced :
                (LoginNotMonitoring(t, p) \/ LoginAlready(t, p) \/ CheckLoginStatus(t, p))
                   => /\ (active_clients[p] = NoClient) <=>
                            (task'[t].pc = "idle" /\ last'.result = "NOT_MONITORING")
                      /\ active_clients[p] = NoClient =>
                            UNCHANGED <<now, active_clients, otp_cache, login_status,
                                        monitoring_start_times, live, hist, task>>
          /\ (task[t].op = "check_login_status" /\ task'[t].pc = "idle")
                => /\ last'.op = "check_login_status"
                   /\ last'.result \in {"LOGGED_IN", "WAITING"}]_vars

C14_Witness ==
    /\ last.op = "check_login_status"
    /\ last.result = "NOT_MONITORING"
    /\ active_clients["p1"] = NoClient
    /\ hist["p1"] # <<>>

(* C15: of the failures inside check_login_status only a get_me error of the revoked
   class sets the login flag and returns LOGGED_IN; any other get_me error and any
   error of the history scan returns WAITING and leaves the flag as it was. *)
C15_OnlyRevokedClaims ==
    [][\A t \in Tasks :
          /\ (ProbeFailed(t) \/ ScanFailed(t))
                => /\ last'.op = "check_login_status" /\ last'.result = "WAITING"
                   /\ login_status' = login_status
          /\ ProbeRevoked(t)
                => /\ last'.result = "LOGGED_IN"
                   /\ login_status'[task[t].phone] = "true"]_vars

C15_Witness ==
    /\ last.op = "check_login_status"
    /\ last.basis \in {"probe_error", "scan_error"}
    /\ login_status["p1"] = "false"

(* C16: when client.start() fails, start_monitoring raises, ends without a retry, and
   no step of the call registers a client, a login flag or a start time; balance,
   accounts and purchases of the completed purchase stay as they are. *)
C16_FailedOpenRegistersNothing ==
    [][\A t \in Tasks :
          /\ ClientStartFailed(t)
                => /\ last'.op = "start_monitoring" /\ last'.result = "raised"
                   /\ task'[t] = IdleTask
                   /\ UNCHANGED <<active_clients, login_status, monitoring_start_times,
                                  otp_cache, live>>
                   /\ UNCHANGED <<balance, accounts, purchases>>
          /\ \A p \in Raced :
                StartMonitoring(t, p, NewClient(LoginClients))
                   => UNCHANGED <<active_clients, login_status, monitoring_start_times,
                                  otp_cache, live, balance, accounts, purchases>>]_vars

C16_Witness ==
    /\ last.op = "start_monitoring"
    /\ last.result = "raised"
    /\ active_clients["p1"] = NoClient
    /\ login_status["p1"] = "absent"
    /\ monitoring_start_times["p1"] = DATETIME_MIN
    /\ Len(purchases) = 1 /\ accounts[1].is_sold

(* C11: once a run of show_otp_waiting has reached LOGGED_IN and stopped the watch, no
   later step of the run shows the waiting, code or timeout text again or sleeps for
   another tick. *)
C11_ClaimedEndsRun ==
    [][run.done => screen' = screen /\ run'.ticks = run.ticks]_vars

(* C12: a run of show_otp_waiting from attempt 0 that never sees LOGGED_IN sleeps at
   most 24 times and has no activation beyond attempt 24, whether or not codes are
   found on the way. *)
C12_FixedTicks ==
    ~run.done =>
        /\ run.ticks <= LAST_ATTEMPT
        /\ \A i \in 1..Len(frames) : frames[i].attempt <= LAST_ATTEMPT

(* C20: after stop_monitoring has completed during a run of show_otp_waiting, the
   loop ends at its next check: it does not sleep again once its check_latest_otp
   found the phone number not monitored. *)
C20_StopEndsLoop ==
    [][(TopPc = "poll" /\ Returned(Looper, "check_latest_otp")
          /\ last.basis = "not_monitoring")
       => TopPc' # "wait_sleep"]_vars

(* C17: get_active_sessions and terminate_session close their connection before the
   call ends, on a normal return and when any step after connect() raised; no call is
   over with its client still connected. *)
C17_ConnectionScopedToCall ==
    /\ dev.pc = "idle" => ~dev.connected
    /\ dev.pc \in {"list", "get_me", "reset", "verify"} => dev.connected

C17_Witness ==
    /\ dev.pc = "idle"
    /\ dev.opened
    /\ dev.result = "raised"
    /\ ~dev.connected

(* C18: terminate_session returns True only when the authorizations fetched after the
   reset call do not list the hash; when the hash is still listed or a step fails, the
   call raises. *)
C18_TrueOnlyWhenAbsent ==
    [][/\ (dev.result # "true" /\ dev'.result = "true")
            => dev.op = "terminate_session" /\ dev.pc = "verify" /\ dev.hash \notin auths
       /\ (dev.op = "terminate_session" /\ dev'.pc = "idle" /\ dev.pc # "idle")
            => dev'.result \in {"true", "raised"}
       /\ (dev.pc = "verify" /\ dev'.pc = "finally" /\ dev.hash \in auths)
            => dev'.result = "raised"]_vars

C18_Witness ==
    /\ dev.op = "terminate_session"
    /\ dev.pc = "idle"
    /\ dev.result = "raised"
    /\ dev.hash \in auths

(* C19: no step of get_active_sessions or terminate_session changes the watcher's
   registered client, cached code, login flag or start time of any phone number,
   also while the account is watched with the same session string. *)
C19_DeviceLeavesWatcher ==
    [][dev' # dev =>
          UNCHANGED <<active_clients, otp_cache, login_status, monitoring_start_times>>]_vars

C19_Witness ==
    /\ dev.op = "terminate_session"
    /\ dev.pc = "idle"
    /\ dev.result = "true"
    /\ active_clients["p1"] # NoClient
    /\ login_status["p1"] = "false"

(* C21: for one phone number at most one check_latest_otp or check_login_status call
   is suspended in a request on the registered client's connection at any instant. *)
InFlight(p) ==
    {t \in Tasks : task[t].phone = p /\ task[t].pc \in {"history", "probe", "scan"}}

C21_OneCallInFlight ==
    \A p \in Phones : Cardinality(InFlight(p)) <= 1

(* C22: when start_monitoring has opened a new connection for a phone number and
   registers it, monitoring_start_times holds the time of that call: the key is
   neither absent nor left over from an earlier watch. *)
C22_StartTimeRecorded ==
    [][\A t \in Tasks :
          RegisterClient(t) =>
             /\ monitoring_start_times'[task[t].phone] # DATETIME_MIN
             /\ monitoring_start_times'[task[t].phone] = watchStart[task[t].phone]]_vars

(* C29: check_latest_otp never returns a code whose message from 777000 is more than
   5 minutes old at the time of the call, also when the code comes from the cache
   fallback after earlier polls. *)
C29_PolledCodeIsRecent ==
    [][\A t \in Tasks :
          ((PollHit(t) \/ PollMiss(t) \/ PollFailed(t))
              /\ last'.op = "check_latest_otp" /\ last'.result # NoCode)
          => \E i \in 1..Len(hist[task[t].phone]) :
                /\ hist[task[t].phone][i].code = last'.result
                /\ now - hist[task[t].phone][i].date <= FRESH_MINUTES]_vars

(* C30: after start_monitoring returned for a phone number, having opened a client or
   only refreshed the watch, get_otp and the cache fallback of check_latest_otp return
   no code that was cached before that call. *)
C30_NoCodeFromBeforeStart ==
    [][\A t \in Tasks, p \in Phones :
          ((GetOtp(t, p) \/ (task[t].phone = p /\ (PollMiss(t) \/ PollFailed(t))))
              /\ last'.basis = "cache" /\ last'.result # NoCode
              /\ watchStart[p] # DATETIME_MIN)
          => otp_cache[p].timestamp >= watchStart[p]]_vars

(* C28: under any interleaving of a buyer's confirmations the balance is conserved:
   balance = starting balance minus the amounts of the buyer's Purchase rows, and it
   never falls below zero. *)
Spent(u) ==
    Price * Cardinality({i \in 1..Len(purchases) : purchases[i].user_id = u})

C28_BalanceConserved ==
    \A u \in Users :
        /\ balance[u] >= 0
        /\ balance[u] + Spent(u) \in StartBalances

(* DepositSpec: two users walk through the deposit flow while the admin API updates the
   status of the rows *)
DepositInit ==
    /\ WatcherInit
    /\ observed = {}
    /\ StoreIdle /\ LoopIdle /\ DeviceIdle /\ DepositIdle

DepositNext ==
    \/ \E u \in Users : process_deposit_method_upi(u)
    \/ \E u \in Users, text \in AmountTexts : process_deposit_amount(u, text)
    \/ \E u \in Users, utr_id \in UtrTexts : process_deposit_utr(u, utr_id)
    \/ \E u \in Users : process_utr_confirmed(u)
    \/ \E u \in Users : process_reenter_utr(u)
    \/ \E u \in Users : process_deposit_screenshot(u)
    \/ \E u \in Users : process_reupload_screenshot(u)
    \/ \E u \in Users : Len(deposits) < MaxDeposits /\ process_deposit_final_confirm(u)
    \/ \E u \in Users : FinalConfirmFailed(u)
    \/ \E d \in 1..Len(deposits), status \in Statuses :
          /\ balance[deposits[d].user_id] + deposits[d].amount <= MaxCredit
          /\ update_deposit(d, status)

DepositSpec == DepositInit /\ [][DepositNext]_vars

(* the amounts of the rows of `rows`, summed *)
RECURSIVE AmountOf(_)
AmountOf(rows) ==
    IF rows = {} THEN 0
    ELSE LET d == CHOOSE x \in rows : TRUE
         IN deposits[d].amount + AmountOf(rows \ {d})

Approved(u) == {d \in 1..Len(deposits) : deposits[d].user_id = u /\ deposits[d].status = "APPROVED"}

(* C25: every Deposit row records the UTR its user entered and confirmed, and no two
   Deposit rows were submitted with the same entered UTR *)
C25_UtrRecordedOnce ==
    /\ \A d \in 1..Len(deposits) : deposits[d].upi_ref_id = deposits[d].entered
    /\ \A d, e \in 1..Len(deposits) : d # e => deposits[d].entered # deposits[e].entered

(* C27: a user's balance holds the amount of each of the user's deposits at most once, and
   only of those whose status is APPROVED: repeated approvals add nothing and a deposit
   that ends REJECTED has contributed nothing *)
C27_CreditedAtMostOnce ==
    \A u \in Users : balance[u] <= AmountOf(Approved(u))

(* ------------------------- callback handlers -------------------------- *)
(* bot.py 1015-1089, 1242-1461: the handlers of the buttons under a purchase.  Each loads
   the Purchase row of the id in the callback data and the Account row it names; none
   reads callback.from_user. *)
Buttons == {"get_otp", "check_otp", "resend_otp", "check_login", "manage_sess", "kill_sess"}
KillHashes == {1}

(* account.phone_number of the purchase *)
PhoneOf(pid) == accounts[purchases[pid].account_id].phone_number
(* the first await of the handler after the rows are loaded; handle_check_login
   (lines 1322-1344) calls show_otp_waiting at once *)
EntryPc(b) ==
    CASE b = "get_otp" -> "go_start"
      [] b = "check_otp" -> "hc_status"
      [] b = "resend_otp" -> "rs_clear"
      [] b = "check_login" -> "status"
      [] b = "manage_sess" -> "ms_call"
      [] b = "kill_sess" -> "ks_call"

(* user u presses button b with purchase id pid in its callback data while no handler is
   running: an earlier show_otp_waiting, if any, stays suspended in its sleep *)
Pressed(u, pid, b, h) ==
    /\ TopPc \in {"none", "code_sleep", "wait_sleep"}
    /\ \A t \in Tasks : task[t].pc = "idle"
    /\ dev.pc = "idle"
    /\ pid \in 1..Len(purchases)
    /\ frames' = <<Frame(0, EntryPc(b))>>
    /\ run' = [run EXCEPT !.caller = u, !.purchase = pid, !.button = b, !.hash = h,
                          !.mark = Len(hist[PhoneOf(pid)])]
    /\ last' = NoCall
    /\ dev' = IdleDevice
    /\ UNCHANGED <<now, active_clients, otp_cache, login_status, monitoring_start_times,
                   live, hist, task, watchStart, observed>>
    /\ UNCHANGED <<screen, auths, storeVars, depositVars>>

(* process_get_otp, lines 1048-1071: start_monitoring returned; the "Starting OTP
   monitoring" message is sent and show_otp_waiting is called *)
GetOtpStarted(t) ==
    /\ TopPc = "go_start"
    /\ Returned(t, "start_monitoring")
    /\ screen' = "starting"
    /\ frames' = SetTop("status")
    /\ UNCHANGED <<run, watcherVars, storeVars, deviceVars, depositVars>>

(* handle_check_otp, lines 1297-1301: check_login_status returned; the handler restarts
   the watch on NOT_MONITORING and goes on to check_latest_otp on every other status *)
CheckOtpStatus(t) ==
    /\ TopPc = "hc_status"
    /\ Returned(t, "check_login_status")
    /\ frames' = SetTop(IF last.result = "NOT_MONITORING" THEN "hc_start" ELSE "hc_poll")
    /\ UNCHANGED <<screen, run, watcherVars, storeVars, deviceVars, depositVars>>

(* handle_check_otp, lines 1303-1308: start_monitoring returned, the sleep is over *)
CheckOtpRestarted(t) ==
    /\ TopPc = "hc_start"
    /\ Returned(t, "start_monitoring")
    /\ frames' = SetTop("hc_poll")
    /\ UNCHANGED <<screen, run, watcherVars, storeVars, deviceVars, depositVars>>

(* process_resend_otp, lines 1264-1268: clear_otp returned *)
ResendCleared(t) ==
    /\ TopPc = "rs_clear"
    /\ Returned(t, "clear_otp")
    /\ frames' = SetTop("rs_poll")
    /\ UNCHANGED <<screen, run, watcherVars, storeVars, deviceVars, depositVars>>

(* lines 1271-1273 and 1317-1319: check_latest_otp returned; its result is dropped and
   show_otp_waiting is called *)
HandlerPolled(t) ==
    /\ TopPc \in {"hc_poll", "rs_poll"}
    /\ Returned(t, "check_latest_otp")
    /\ frames' = SetTop("status")
    /\ UNCHANGED <<screen, run, watcherVars, storeVars, deviceVars, depositVars>>

(* process_manage_session, lines 1373-1423: get_active_sessions is over; the session list
   or the error text is shown *)
SessionsShown ==
    /\ TopPc = "ms_call"
    /\ dev.pc = "idle"
    /\ dev.op = "get_active_sessions"
    /\ screen' = IF dev.result = "sessions" THEN "sessions" ELSE "error"
    /\ frames' = Pop
    /\ UNCHANGED <<run, watcherVars, storeVars, deviceVars, depositVars>>

(* process_kill_session, lines 1450-1461: terminate_session is over; on True the handler
   calls process_manage_session, otherwise it answers with the error *)
SessionKilled ==
    /\ TopPc = "ks_call"
    /\ dev.pc = "idle"
    /\ dev.op = "terminate_session"
    /\ frames' = IF dev.result = "true" THEN SetTop("ms_call") ELSE Pop
    /\ screen' = IF dev.result = "true" THEN "revoked" ELSE "error"
    /\ UNCHANGED <<run, watcherVars, storeVars, deviceVars, depositVars>>

(* ButtonSpec: the buyer u1 of the account of p1 and another user u2 press the buttons
   with the id of that purchase; the handlers run one after the other, each up to the
   first sleep of its show_otp_waiting *)
ButtonInit ==
    /\ WatcherInit
    /\ observed = {"check_login_status", "check_latest_otp", "stop_monitoring", "clear_otp",
                   "start_monitoring returns"}
    /\ Purchased /\ LoopIdle /\ DeviceIdle /\ DepositIdle

ButtonPhone == PhoneOf(run.purchase)

ButtonNext ==
    \/ \E u \in Users, pid \in 1..Len(purchases), b \in Buttons \ {"kill_sess"} :
          Pressed(u, pid, b, NoHash)
    \/ \E u \in Users, pid \in 1..Len(purchases), h \in KillHashes :
          Pressed(u, pid, "kill_sess", h)
    \/ /\ TopPc \in {"go_start", "hc_start"} /\ last.op # "start_monitoring"
       /\ NewClient(ButtonClients) # NoClient
       /\ StartMonitoring(Looper, ButtonPhone, NewClient(ButtonClients))
    \/ /\ TopPc \in {"go_start", "hc_start"} /\ last.op # "start_monitoring"
       /\ AlreadyMonitoring(Looper, ButtonPhone)
    \/ /\ TopPc \in {"status", "hc_status"} /\ last.op # "check_login_status"
       /\ LoginNotMonitoring(Looper, ButtonPhone)
    \/ /\ TopPc \in {"status", "hc_status"} /\ last.op # "check_login_status"
       /\ LoginAlready(Looper, ButtonPhone)
    \/ /\ TopPc \in {"status", "hc_status"} /\ last.op # "check_login_status"
       /\ CheckLoginStatus(Looper, ButtonPhone)
    \/ /\ TopPc \in {"poll", "hc_poll", "rs_poll"} /\ last.op # "check_latest_otp"
       /\ PollNotMonitoring(Looper, ButtonPhone)
    \/ /\ TopPc \in {"poll", "hc_poll", "rs_poll"} /\ last.op # "check_latest_otp"
       /\ CheckLatestOtp(Looper, ButtonPhone)
    \/ TopPc = "rs_clear" /\ last.op # "clear_otp" /\ clear_otp(Looper, ButtonPhone)
    \/ TopPc = "stop" /\ last.op # "stop_monitoring" /\ StopMonitoring(Looper, ButtonPhone)
    \/ TopPc = "ms_call" /\ dev.op # "get_active_sessions" /\ get_active_sessions
    \/ TopPc = "ks_call" /\ dev.op # "terminate_session" /\ terminate_session(run.hash)
    \/ \E t \in Tasks :
          \/ ClientStarted(t)
          \/ RegisterClient(t)
          \/ ClientStopped(t)
          \/ PollHit(t)
          \/ PollMiss(t)
          \/ ProbeOk(t)
          \/ ProbeRevoked(t)
          \/ ScanFound(t)
          \/ ScanNone(t)
    \/ GetOtpStarted(Looper)
    \/ CheckOtpStatus(Looper)
    \/ CheckOtpRestarted(Looper)
    \/ ResendCleared(Looper)
    \/ HandlerPolled(Looper)
    \/ LoopClaimed(Looper)
    \/ LoopNotClaimed(Looper)
    \/ LoopStopped(Looper)
    \/ LoopCode(Looper)
    \/ LoopWaiting(Looper)
    \/ DevConnected
    \/ DevRaised
    \/ DevListed
    \/ DevGotMe
    \/ DevResetDone
    \/ DevResetIgnored
    \/ DevVerified
    \/ DevFinally
    \/ SessionsShown
    \/ SessionKilled
    \/ \E h \in KillHashes : Authorized(h)
    \/ \E p \in Raced, k \in MessageKinds :
          \/ CountMsgs(Phones) < ButtonMsgs /\ MessageArrives(p, k[1], k[2])
          \/ CountMsgs(Phones) < ButtonMsgs /\ handle_telegram_message(p, k[1], k[2])

ButtonSpec == ButtonInit /\ [][ButtonNext]_vars

(* C23: the claim check gates the poll: when the call that returned last to the flow is
   check_login_status with LOGGED_IN, the flow's next call is not a check_latest_otp on
   the monitored phone number *)
C23_ClaimGatesPoll ==
    [][\A p \in Phones :
          (last.op = "check_login_status" /\ last.result = "LOGGED_IN")
          => ~CheckLatestOtp(Looper, p)]_vars

(* C24: the code shown before a resend is not shown again by the run that the resend
   starts unless a message arrived in the chat history after the button was pressed *)
C24_ResendServesNoOldCode ==
    [][(run.button = "resend_otp" /\ LoopCode(Looper) /\ last.result = run.shown)
       => Len(hist[ButtonPhone]) > run.mark]_vars

(* C26: a code, a session list or a revocation is given only to the buyer of the purchase
   whose id the callback data names *)
C26_OnlyBuyerIsServed ==
    [][(\/ LoopCode(Looper)
        \/ SessionsShown /\ dev.result = "sessions"
        \/ SessionKilled /\ dev.result = "true")
       => run.caller = purchases[run.purchase].user_id]_vars

====
